---- MODULE Spec2Model ----
(***************************************************************************)
(* Lane detection system: the lane geometry fitter calculate_lane_lines   *)
(* and the blend weighted_img (src/lane_detection/utils.py) and the video *)
(* pipeline driver process_video (src/main.py).                           *)
(*                                                                         *)
(* Three specifications share the module:                                  *)
(*   Spec      the driver process_video, one step per statement group      *)
(*   SpecFit   calculate_lane_lines, one step per loop iteration           *)
(*   SpecBlend weighted_img on one pixel                                   *)
(* The variables of the parts a specification does not run stay at their  *)
(* idle values.                                                            *)
(***************************************************************************)
EXTENDS Integers, Sequences, FiniteSets

VARIABLES
    \* ---- calculate_lane_lines
    fpc,            \* position in calculate_lane_lines
    lines,          \* argument: [none |-> BOOLEAN, segs |-> sequence of segments]
    image_height,   \* argument
    idx,            \* number of segments the for loop has consumed
    left_lines,     \* list of (slope, intercept)
    right_lines,    \* list of (slope, intercept)
    left_line,      \* <<>> for None, << <<<<x1, y1>>, <<x2, y2>>>> >> when present
    right_line,
    ferr,           \* "none" or the exception that ended the call
    \* ---- weighted_img
    bpc, b_img, b_initial, b_out,
    \* ---- process_video
    pc,             \* position in process_video
    openable,       \* input: whether the capture opens
    source,         \* input: the frames the capture yields before a read fails
    visualize,      \* argument
    capOpened, capReleased,
    writerCreated, writerReleased,
    windowShown, windowsDestroyed,
    pos,            \* number of successful reads
    frame, lanes, result_frame,
    frame_count, processing_times,
    written,        \* frames the writer received, in order
    out,            \* lines printed
    err,            \* pending exception, "none" when there is none
    exitPath,       \* how the frame loop was left
    nDetect, nDraw  \* calls of detector.detect and visualizer.draw_lanes

fitVars == <<fpc, lines, image_height, idx, left_lines, right_lines,
             left_line, right_line, ferr>>
blendVars == <<bpc, b_img, b_initial, b_out>>
runVars == <<pc, openable, source, visualize, capOpened, capReleased,
             writerCreated, writerReleased, windowShown, windowsDestroyed,
             pos, frame, lanes, result_frame, frame_count, processing_times,
             written, out, err, exitPath, nDetect, nDraw>>
vars == <<fitVars, blendVars, runVars>>

(***************************************************************************)
(* Bounds of the model.                                                    *)
(***************************************************************************)
MaxSegs == 2        \* segments in the collection handed to the fitter
MaxDy == 3          \* |y2 - y1| of a segment
MaxHeight == 5      \* frame heights 1..MaxHeight
MaxFrames == 3      \* frames a source yields
NumFrameVals == 2   \* distinct frame contents
MaxDur == 1         \* a frame's measured duration, in clock ticks, 0..MaxDur

(***************************************************************************)
(* Exact rational arithmetic for the float computations of the fitter.    *)
(* A rational is <<numerator, denominator>> with denominator > 0, reduced.*)
(* On the integer pixel coordinates of the model the float comparisons    *)
(* with the literal 0.3 agree with the exact ones: float division is      *)
(* correctly rounded and monotone, and 0.3 is the float nearest 3/10.     *)
(***************************************************************************)
Abs(n) == IF n < 0 THEN -n ELSE n

RECURSIVE GCD(_, _)
GCD(a, b) == IF b = 0 THEN a ELSE GCD(b, a % b)

RNorm(n, d) ==
    LET g == GCD(Abs(n), Abs(d))
        s == IF d < 0 THEN -1 ELSE 1
    IN  <<(s * n) \div g, (s * d) \div g>>

RAdd(a, b) == RNorm(a[1] * b[2] + b[1] * a[2], a[2] * b[2])
RSub(a, b) == RNorm(a[1] * b[2] - b[1] * a[2], a[2] * b[2])
RMul(a, b) == RNorm(a[1] * b[1], a[2] * b[2])
RLt(a, b) == a[1] * b[2] < b[1] * a[2]
RInt(n) == <<n, 1>>

\* int(n / d): truncation toward zero
Trunc(n, d) ==
    LET q == Abs(n) \div Abs(d)
    IN  IF (n < 0) = (d < 0) THEN q ELSE -q


(***************************************************************************)
(* calculate_lane_lines (src/lane_detection/utils.py:109-161).            *)
(* A segment is <<x1, y1, x2, y2>>; the collection holds one segment per  *)
(* line, the shape the segment detector returns.                           *)
(***************************************************************************)
NoLines == [none |-> TRUE, segs |-> <<>>]

SeqsUpTo(S, n) == UNION {[1..k -> S] : k \in 0..n}

Segments == {<<10, 5, 10 + dx, 5 + dy>> : dx \in {-10, 0, 3}, dy \in -MaxDy..MaxDy}

LineInputs == {NoLines} \cup {[none |-> FALSE, segs |-> s] : s \in SeqsUpTo(Segments, MaxSegs)}

\* `if x1 == x2`
IsVertical(seg) == seg[1] = seg[3]

\* `slope = (y2 - y1) / (x2 - x1)`
SlopeOf(seg) == RNorm(seg[4] - seg[2], seg[3] - seg[1])

\* `intercept = y1 - slope * x1`
InterceptOf(seg, slope) == RSub(RInt(seg[2]), RMul(slope, RInt(seg[1])))

\* the deadband 0.3
SlopeThreshold == <<3, 10>>

\* `if slope < -0.3`
IsLeft(slope) == RLt(slope, <<-SlopeThreshold[1], SlopeThreshold[2]>>)

IsRightInclusive(slope) == ~RLt(slope, SlopeThreshold)

IsRightElse(slope) == TRUE

\* `elif slope > 0.3`
IsRight(slope) == RLt(SlopeThreshold, slope)

RECURSIVE SumOf(_, _)
SumOf(group, k) ==
    IF group = <<>> THEN RInt(0)
    ELSE RAdd(group[1][k], SumOf(Tail(group), k))

\* np.average(group, axis=0)[k]
AverageOf(group, k) == RMul(SumOf(group, k), <<1, Len(group)>>)

TopAnchorHalf(y1) == Trunc(5 * y1, 10)

\* `y2 = int(y1 * 0.6)`; the float product truncates to the exact quotient
\* for every height below 20000
TopAnchor(y1) == Trunc(6 * y1, 10)

\* `x = int((y - intercept) / slope)`, slope nonzero
SolveX(y, slope, intercept) ==
    LET n == RSub(RInt(y), intercept)
    IN  Trunc(n[1] * slope[2], n[2] * slope[1])

ExtrapolateGroupMin2(group, height) ==
    IF Len(group) < 2 THEN [line |-> <<>>, err |-> "none"]
    ELSE LET slope == AverageOf(group, 1)
             intercept == AverageOf(group, 2)
             y1 == height
             y2 == TopAnchor(y1)
         IN  [line |-> << <<<<SolveX(y1, slope, intercept), y1>>,
                            <<SolveX(y2, slope, intercept), y2>>>> >>,
              err |-> "none"]

\* `if left_lines: ...` / `if right_lines: ...`: the averaged line through the
\* two anchors, <<>> for None. A zero averaged slope makes the division
\* produce inf or nan, and int() of it raises.
ExtrapolateGroup(group, height) ==
    IF group = <<>> THEN [line |-> <<>>, err |-> "none"]
    ELSE LET slope == AverageOf(group, 1)
             intercept == AverageOf(group, 2)
             y1 == height
             y2 == TopAnchor(y1)
         IN  IF slope[1] = 0
             THEN [line |-> <<>>, err |-> "DivisionByZero"]
             ELSE [line |-> << <<<<SolveX(y1, slope, intercept), y1>>,
                                 <<SolveX(y2, slope, intercept), y2>>>> >>,
                   err |-> "none"]

FitIdle ==
    /\ fpc = "idle" /\ lines = NoLines /\ image_height = 0 /\ idx = 0
    /\ left_lines = <<>> /\ right_lines = <<>>
    /\ left_line = <<>> /\ right_line = <<>> /\ ferr = "none"

FitInit ==
    /\ fpc = "start"
    /\ lines \in LineInputs
    /\ image_height \in 1..MaxHeight
    /\ idx = 0
    /\ left_lines = <<>> /\ right_lines = <<>>
    /\ left_line = <<>> /\ right_line = <<>>
    /\ ferr = "none"

\* `if lines is None: return None, None`, else the two empty lists
FitStart ==
    /\ fpc = "start"
    /\ fpc' = IF lines.none THEN "return" ELSE "loop"
    /\ UNCHANGED <<runVars, blendVars>>
    /\ UNCHANGED <<lines, image_height, idx, left_lines, right_lines,
                   left_line, right_line, ferr>>

\* one iteration of `for line in lines: for x1, y1, x2, y2 in line:`
ClassifyNext ==
    /\ fpc = "loop"
    /\ idx < Len(lines.segs)
    /\ LET seg == lines.segs[idx + 1]
           slope == SlopeOf(seg)
           item == <<slope, InterceptOf(seg, slope)>>
       IN  IF IsVertical(seg)
           THEN UNCHANGED <<left_lines, right_lines>>
           ELSE IF IsLeft(slope)
           THEN left_lines' = Append(left_lines, item) /\ UNCHANGED right_lines
           ELSE IF IsRight(slope)
           THEN right_lines' = Append(right_lines, item) /\ UNCHANGED left_lines
           ELSE UNCHANGED <<left_lines, right_lines>>
    /\ idx' = idx + 1
    /\ UNCHANGED <<runVars, blendVars>>
    /\ UNCHANGED <<fpc, lines, image_height, left_line, right_line, ferr>>

\* the loop is exhausted
ClassifyDone ==
    /\ fpc = "loop"
    /\ idx = Len(lines.segs)
    /\ fpc' = "avg_left"
    /\ UNCHANGED <<runVars, blendVars>>
    /\ UNCHANGED <<lines, image_height, idx, left_lines, right_lines,
                   left_line, right_line, ferr>>

\* `if left_lines:` block
AverageLeft ==
    /\ fpc = "avg_left"
    /\ LET r == ExtrapolateGroup(left_lines, image_height)
       IN  /\ left_line' = r.line
           /\ ferr' = r.err
           /\ fpc' = IF r.err = "none" THEN "avg_right" ELSE "raised"
    /\ UNCHANGED <<runVars, blendVars>>
    /\ UNCHANGED <<lines, image_height, idx, left_lines, right_lines, right_line>>

\* `if right_lines:` block and the return
AverageRight ==
    /\ fpc = "avg_right"
    /\ LET r == ExtrapolateGroup(right_lines, image_height)
       IN  /\ right_line' = r.line
           /\ ferr' = r.err
           /\ fpc' = IF r.err = "none" THEN "return" ELSE "raised"
    /\ UNCHANGED <<runVars, blendVars>>
    /\ UNCHANGED <<lines, image_height, idx, left_lines, right_lines, left_line>>


(***************************************************************************)
(* weighted_img (src/lane_detection/utils.py:93-106) on one 8-bit pixel.  *)
(* Weights are in tenths: 8 for 0.8, 10 for 1.0.                          *)
(***************************************************************************)
PixelValues == 0..255

\* the defaults α=0.8, β=1., γ=0.
DefaultWeights == [alpha |-> 8, beta |-> 10, gamma |-> 0]

\* round to the nearest integer, ties to even, of n/10 for n >= 0
RoundTenths(n) ==
    LET q == n \div 10
        r == n % 10
    IN  IF r < 5 THEN q
        ELSE IF r > 5 THEN q + 1
        ELSE IF q % 2 = 0 THEN q ELSE q + 1

\* the saturating cast to 8 bits
Saturate(v) == IF v > 255 THEN 255 ELSE IF v < 0 THEN 0 ELSE v

\* cv2.addWeighted(src1, alpha, src2, beta, gamma) = saturate(src1*alpha + src2*beta + gamma)
AddWeighted(src1, alpha, src2, beta, gamma) ==
    Saturate(RoundTenths(src1 * alpha + src2 * beta + gamma))

\* `return cv2.addWeighted(initial_img, α, img, β, γ)`
weighted_img(img, initial_img, w) ==
    AddWeighted(initial_img, w.alpha, img, w.beta, w.gamma)

BlendIdle == bpc = "idle" /\ b_img = 0 /\ b_initial = 0 /\ b_out = 0

BlendInit ==
    /\ bpc = "start"
    /\ b_img \in PixelValues
    /\ b_initial \in PixelValues
    /\ b_out = 0

\* weighted_img(overlay, original) with the default weights
Blend ==
    /\ bpc = "start"
    /\ b_out' = weighted_img(b_img, b_initial, DefaultWeights)
    /\ bpc' = "return"
    /\ UNCHANGED <<runVars, fitVars>>
    /\ UNCHANGED <<b_img, b_initial>>

(***************************************************************************)
(* process_video (src/main.py:10-82).                                      *)
(***************************************************************************)
\* `frame_count % 100 == 0`
ProgressEvery == 100

Frames == 1..NumFrameVals

\* detector.detect(frame): the lanes of that frame
DetectLanes(f) == <<"lanes", f>>

\* visualizer.draw_lanes(frame, lanes): the composite of that frame
DrawLanes(f, l) == <<"composite", f, l>>

RECURSIVE SumSeq(_)
SumSeq(s) == IF s = <<>> THEN 0 ELSE s[1] + SumSeq(Tail(s))

RunIdle ==
    /\ pc = "idle" /\ openable = FALSE /\ source = <<>> /\ visualize = FALSE
    /\ capOpened = FALSE /\ capReleased = FALSE
    /\ writerCreated = FALSE /\ writerReleased = FALSE
    /\ windowShown = FALSE /\ windowsDestroyed = FALSE
    /\ pos = 0 /\ frame = 0 /\ lanes = <<>> /\ result_frame = <<>>
    /\ frame_count = 0 /\ processing_times = <<>>
    /\ written = <<>> /\ out = <<>> /\ err = "none" /\ exitPath = "none"
    /\ nDetect = 0 /\ nDraw = 0

RunInit ==
    /\ pc = "open"
    /\ openable \in BOOLEAN
    /\ source \in SeqsUpTo(Frames, MaxFrames)
    /\ visualize \in BOOLEAN
    /\ capOpened = FALSE /\ capReleased = FALSE
    /\ writerCreated = FALSE /\ writerReleased = FALSE
    /\ windowShown = FALSE /\ windowsDestroyed = FALSE
    /\ pos = 0 /\ frame = 0 /\ lanes = <<>> /\ result_frame = <<>>
    /\ frame_count = 0 /\ processing_times = <<>>
    /\ written = <<>> /\ out = <<>> /\ err = "none" /\ exitPath = "none"
    /\ nDetect = 0 /\ nDraw = 0

OpenSourceUnchecked ==
    /\ pc = "open"
    /\ capOpened' = openable
    /\ pc' = "open_sink"
    /\ UNCHANGED <<fitVars, blendVars>>
    /\ UNCHANGED <<openable, source, visualize, capReleased, writerCreated,
                   writerReleased, windowShown, windowsDestroyed, pos, frame,
                   lanes, result_frame, frame_count, processing_times, written,
                   out, err, exitPath, nDetect, nDraw>>

\* `cap = cv2.VideoCapture(input_path)`, `if not cap.isOpened(): raise IOError`
OpenSource ==
    /\ pc = "open"
    /\ capOpened' = openable
    /\ IF openable
       THEN pc' = "open_sink" /\ err' = err
       ELSE pc' = "raised" /\ err' = "IOError"
    /\ UNCHANGED <<fitVars, blendVars>>
    /\ UNCHANGED <<openable, source, visualize, capReleased, writerCreated,
                   writerReleased, windowShown, windowsDestroyed, pos, frame,
                   lanes, result_frame, frame_count, processing_times, written,
                   out, exitPath, nDetect, nDraw>>

\* the properties and `writer = cv2.VideoWriter(...)`, before the try block:
\* an exception here leaves the function at once
OpenSink ==
    /\ pc = "open_sink"
    /\ \/ writerCreated' = TRUE /\ pc' = "loop" /\ err' = err
       \/ writerCreated' = FALSE /\ pc' = "raised" /\ err' = "SinkError"
    /\ UNCHANGED <<fitVars, blendVars>>
    /\ UNCHANGED <<openable, source, visualize, capOpened, capReleased,
                   writerReleased, windowShown, windowsDestroyed, pos, frame,
                   lanes, result_frame, frame_count, processing_times, written,
                   out, exitPath, nDetect, nDraw>>

\* `while cap.isOpened():`
LoopTest ==
    /\ pc = "loop"
    /\ IF capOpened
       THEN pc' = "read" /\ exitPath' = exitPath
       ELSE pc' = "release_cap" /\ exitPath' = "closed"
    /\ UNCHANGED <<fitVars, blendVars>>
    /\ UNCHANGED <<openable, source, visualize, capOpened, capReleased,
                   writerCreated, writerReleased, windowShown, windowsDestroyed,
                   pos, frame, lanes, result_frame, frame_count,
                   processing_times, written, out, err, nDetect, nDraw>>

\* `ret, frame = cap.read()`, `if not ret: break`
ReadFrame ==
    /\ pc = "read"
    /\ IF pos < Len(source)
       THEN /\ frame' = source[pos + 1]
            /\ pos' = pos + 1
            /\ pc' = "detect"
            /\ exitPath' = exitPath
       ELSE /\ pc' = "release_cap"
            /\ exitPath' = "read_failed"
            /\ UNCHANGED <<frame, pos>>
    /\ UNCHANGED <<fitVars, blendVars>>
    /\ UNCHANGED <<openable, source, visualize, capOpened, capReleased,
                   writerCreated, writerReleased, windowShown, windowsDestroyed,
                   lanes, result_frame, frame_count, processing_times, written,
                   out, err, nDetect, nDraw>>

\* `start_time = time.time()`, `lanes = detector.detect(frame)`
Detect ==
    /\ pc = "detect"
    /\ \/ /\ lanes' = DetectLanes(frame)
          /\ nDetect' = nDetect + 1
          /\ pc' = "draw"
          /\ UNCHANGED <<err, exitPath>>
       \/ /\ err' = "DetectError"
          /\ exitPath' = "exception"
          /\ pc' = "release_cap"
          /\ UNCHANGED <<lanes, nDetect>>
    /\ UNCHANGED <<fitVars, blendVars>>
    /\ UNCHANGED <<openable, source, visualize, capOpened, capReleased,
                   writerCreated, writerReleased, windowShown, windowsDestroyed,
                   pos, frame, result_frame, frame_count, processing_times,
                   written, out, nDraw>>

\* `result_frame = visualizer.draw_lanes(frame, lanes)`
Draw ==
    /\ pc = "draw"
    /\ \/ /\ result_frame' = DrawLanes(frame, lanes)
          /\ nDraw' = nDraw + 1
          /\ pc' = "time"
          /\ UNCHANGED <<err, exitPath>>
       \/ /\ err' = "DrawError"
          /\ exitPath' = "exception"
          /\ pc' = "release_cap"
          /\ UNCHANGED <<result_frame, nDraw>>
    /\ UNCHANGED <<fitVars, blendVars>>
    /\ UNCHANGED <<openable, source, visualize, capOpened, capReleased,
                   writerCreated, writerReleased, windowShown, windowsDestroyed,
                   pos, frame, lanes, frame_count, processing_times, written,
                   out, nDetect>>

\* `processing_time = time.time() - start_time`, `processing_times.append(...)`
RecordTime ==
    /\ pc = "time"
    /\ \E d \in 0..MaxDur : processing_times' = Append(processing_times, d)
    /\ pc' = "write"
    /\ UNCHANGED <<fitVars, blendVars>>
    /\ UNCHANGED <<openable, source, visualize, capOpened, capReleased,
                   writerCreated, writerReleased, windowShown, windowsDestroyed,
                   pos, frame, lanes, result_frame, frame_count, written, out,
                   err, exitPath, nDetect, nDraw>>

WriteFrameDropped ==
    /\ pc = "write"
    /\ pc' = "display"
    /\ UNCHANGED <<fitVars, blendVars>>
    /\ UNCHANGED <<openable, source, visualize, capOpened, capReleased,
                   writerCreated, writerReleased, windowShown, windowsDestroyed,
                   pos, frame, lanes, result_frame, frame_count,
                   processing_times, written, out, err, exitPath, nDetect, nDraw>>

\* `writer.write(result_frame)`
WriteFrame ==
    /\ pc = "write"
    /\ \/ /\ written' = Append(written, result_frame)
          /\ pc' = "display"
          /\ UNCHANGED <<err, exitPath>>
       \/ /\ err' = "WriteError"
          /\ exitPath' = "exception"
          /\ pc' = "release_cap"
          /\ UNCHANGED written
    /\ UNCHANGED <<fitVars, blendVars>>
    /\ UNCHANGED <<openable, source, visualize, capOpened, capReleased,
                   writerCreated, writerReleased, windowShown, windowsDestroyed,
                   pos, frame, lanes, result_frame, frame_count,
                   processing_times, out, nDetect, nDraw>>

\* `if visualize: cv2.imshow(...)`, `if cv2.waitKey(1) & 0xFF == ord('q'): break`
Display ==
    /\ pc = "display"
    /\ \/ /\ ~visualize
          /\ pc' = "count"
          /\ UNCHANGED <<windowShown, err, exitPath>>
       \/ /\ visualize
          /\ windowShown' = TRUE
          /\ \E key \in {"q", "other"} :
                IF key = "q"
                THEN pc' = "release_cap" /\ exitPath' = "quit"
                ELSE pc' = "count" /\ exitPath' = exitPath
          /\ UNCHANGED err
       \/ /\ visualize
          /\ err' = "DisplayError"
          /\ exitPath' = "exception"
          /\ pc' = "release_cap"
          /\ UNCHANGED windowShown
    /\ UNCHANGED <<fitVars, blendVars>>
    /\ UNCHANGED <<openable, source, visualize, capOpened, capReleased,
                   writerCreated, writerReleased, windowsDestroyed, pos, frame,
                   lanes, result_frame, frame_count, processing_times, written,
                   out, nDetect, nDraw>>

\* `frame_count += 1` and the progress line every 100 frames
CountFrame ==
    /\ pc = "count"
    /\ frame_count' = frame_count + 1
    /\ out' = IF frame_count' % ProgressEvery = 0
              THEN Append(out, <<"Processed", frame_count'>>)
              ELSE out
    /\ pc' = "loop"
    /\ UNCHANGED <<fitVars, blendVars>>
    /\ UNCHANGED <<openable, source, visualize, capOpened, capReleased,
                   writerCreated, writerReleased, windowShown, windowsDestroyed,
                   pos, frame, lanes, result_frame, processing_times, written,
                   err, exitPath, nDetect, nDraw>>

\* finally: `cap.release()`
ReleaseCap ==
    /\ pc = "release_cap"
    /\ capOpened' = FALSE
    /\ capReleased' = TRUE
    /\ pc' = "release_writer"
    /\ UNCHANGED <<fitVars, blendVars>>
    /\ UNCHANGED <<openable, source, visualize, writerCreated, writerReleased,
                   windowShown, windowsDestroyed, pos, frame, lanes,
                   result_frame, frame_count, processing_times, written, out,
                   err, exitPath, nDetect, nDraw>>

\* finally: `writer.release()`
ReleaseWriter ==
    /\ pc = "release_writer"
    /\ writerReleased' = TRUE
    /\ pc' = "destroy_windows"
    /\ UNCHANGED <<fitVars, blendVars>>
    /\ UNCHANGED <<openable, source, visualize, capOpened, capReleased,
                   writerCreated, windowShown, windowsDestroyed, pos, frame,
                   lanes, result_frame, frame_count, processing_times, written,
                   out, err, exitPath, nDetect, nDraw>>

\* finally: `cv2.destroyAllWindows()`
DestroyWindows ==
    /\ pc = "destroy_windows"
    /\ windowShown' = FALSE
    /\ windowsDestroyed' = TRUE
    /\ pc' = "stats"
    /\ UNCHANGED <<fitVars, blendVars>>
    /\ UNCHANGED <<openable, source, visualize, capOpened, capReleased,
                   writerCreated, writerReleased, pos, frame, lanes,
                   result_frame, frame_count, processing_times, written, out,
                   err, exitPath, nDetect, nDraw>>

PrintStatsUnguarded ==
    /\ pc = "stats"
    /\ LET total == SumSeq(processing_times)
           n == Len(processing_times)
       IN  IF n = 0 \/ total = 0
           THEN /\ out' = out
                /\ err' = "ZeroDivisionError"
           ELSE /\ out' = out \o << <<"Processed", frame_count>>,
                                    <<"AvgTime", total, n>>,
                                    <<"AvgFPS", n, total>> >>
                /\ err' = err
    /\ pc' = IF err' = "none" THEN "done" ELSE "raised"
    /\ UNCHANGED <<fitVars, blendVars>>
    /\ UNCHANGED <<openable, source, visualize, capOpened, capReleased,
                   writerCreated, writerReleased, windowShown, windowsDestroyed,
                   pos, frame, lanes, result_frame, frame_count,
                   processing_times, written, exitPath, nDetect, nDraw>>

\* finally: `if processing_times:` the three report lines; the block's end
\* re-raises a pending exception. avg_time is total/n and 1/avg_time is
\* n/total: a zero total raises after the first two lines are printed.
PrintStats ==
    /\ pc = "stats"
    /\ LET total == SumSeq(processing_times)
           n == Len(processing_times)
       IN  IF processing_times = <<>>
           THEN UNCHANGED <<out, err>>
           ELSE IF total = 0
           THEN /\ out' = out \o << <<"Processed", frame_count>>,
                                    <<"AvgTime", total, n>> >>
                /\ err' = "ZeroDivisionError"
           ELSE /\ out' = out \o << <<"Processed", frame_count>>,
                                    <<"AvgTime", total, n>>,
                                    <<"AvgFPS", n, total>> >>
                /\ err' = err
    /\ pc' = IF err' = "none" THEN "done" ELSE "raised"
    /\ UNCHANGED <<fitVars, blendVars>>
    /\ UNCHANGED <<openable, source, visualize, capOpened, capReleased,
                   writerCreated, writerReleased, windowShown, windowsDestroyed,
                   pos, frame, lanes, result_frame, frame_count,
                   processing_times, written, exitPath, nDetect, nDraw>>

(***************************************************************************)
(* The specifications.                                                     *)
(***************************************************************************)
Init == RunInit /\ FitIdle /\ BlendIdle
Next ==
    \/ OpenSource \/ OpenSink \/ LoopTest \/ ReadFrame \/ Detect \/ Draw
    \/ RecordTime \/ WriteFrame \/ Display \/ CountFrame
    \/ ReleaseCap \/ ReleaseWriter \/ DestroyWindows \/ PrintStats
Spec == Init /\ [][Next]_vars

InitFit == FitInit /\ RunIdle /\ BlendIdle
NextFit == FitStart \/ ClassifyNext \/ ClassifyDone \/ AverageLeft \/ AverageRight
SpecFit == InitFit /\ [][NextFit]_vars

InitBlend == BlendInit /\ RunIdle /\ FitIdle
NextBlend == Blend
SpecBlend == InitBlend /\ [][NextBlend]_vars


(***************************************************************************)
(* Properties of process_video (checked under Spec).                       *)
(***************************************************************************)
Terminated == pc \in {"done", "raised"}

LoopLeft == pc \in {"release_cap", "release_writer", "destroy_windows", "stats", "done"}
            \/ (pc = "raised" /\ exitPath # "none")

\* C1: when the run has ended, normally or by an exception, the input source
\* is no longer open, the output sink if created is released, and no display
\* window is left.
C1_AllReleasedAtExit ==
    Terminated =>
        /\ ~capOpened
        /\ (writerCreated => writerReleased)
        /\ ~windowShown

C6_OpenFailureAborts ==
    ~openable =>
        /\ pc \in {"open", "raised"}
        /\ (pc = "raised" => err = "IOError")
        /\ pos = 0 /\ nDetect = 0 /\ nDraw = 0
        /\ ~writerCreated
        /\ processing_times = <<>> /\ written = <<>> /\ out = <<>>
        /\ frame_count = 0

C6_Witness == ~openable /\ pc = "raised" /\ err = "IOError" /\ source # <<>>

\* C9: frames are handled one at a time and in order. Whenever a read is about
\* to happen every frame read so far has had exactly one detect, one
\* draw_lanes, one duration and one write; no step ever runs ahead of the
\* reads or more than one frame behind; what was written is the composite of
\* what was read, in read order; and once a read has failed nothing more is
\* read or written.
C9_StateInv ==
    /\ pc = "read" =>
          /\ nDetect = pos /\ nDraw = pos
          /\ Len(processing_times) = pos
          /\ Len(written) = pos
    /\ pos - 1 <= Len(written)
    /\ Len(written) <= Len(processing_times)
    /\ Len(processing_times) <= nDraw
    /\ nDraw <= nDetect
    /\ nDetect <= pos
    /\ \A i \in 1..Len(written) :
          written[i] = <<"composite", source[i], <<"lanes", source[i]>> >>

\* C9: C9_StateInv holds in every state, and after a failed read no step
\* reads or writes a frame.
C9_Sequential ==
    /\ []C9_StateInv
    /\ [][exitPath = "read_failed" => (pos' = pos /\ written' = written)]_vars

C9_Witness ==
    /\ pc = "done" /\ exitPath = "read_failed"
    /\ pos = MaxFrames /\ Len(written) = MaxFrames
    /\ source[1] # source[2]

\* C10: once the frame loop has been left, by any path, frame_count equals the
\* number of frames written and the number of durations recorded.
C10_CountMatchesWrites ==
    LoopLeft =>
        /\ frame_count = Len(written)
        /\ frame_count = Len(processing_times)

(***************************************************************************)
(* Properties of calculate_lane_lines (checked under SpecFit).            *)
(* The slope tests are restated on the raw coordinates: with dx # 0,       *)
(* dy/dx < -3/10 iff 10*dy*dx < -3*dx*dx.                                  *)
(***************************************************************************)
SegSteepNeg(seg) ==
    LET dx == seg[3] - seg[1]
        dy == seg[4] - seg[2]
    IN  dx # 0 /\ 10 * dy * dx < -3 * dx * dx

SegSteepPos(seg) ==
    LET dx == seg[3] - seg[1]
        dy == seg[4] - seg[2]
    IN  dx # 0 /\ 10 * dy * dx > 3 * dx * dx

SegOnBoundary(seg) ==
    LET dx == seg[3] - seg[1]
        dy == seg[4] - seg[2]
    IN  dx # 0 /\ (10 * dy = 3 * dx \/ 10 * dy = -3 * dx)

\* C2: the call never fails, and on return the left line is present iff some
\* input segment is non-vertical with slope < -0.3, the right line iff some
\* input segment is non-vertical with slope > 0.3 (None and empty give both absent).
C2_PresentIffSteepSegment ==
    /\ ferr = "none" /\ fpc # "raised"
    /\ fpc = "return" =>
          /\ (left_line # <<>>) <=>
                (\E i \in 1..Len(lines.segs) : SegSteepNeg(lines.segs[i]))
          /\ (right_line # <<>>) <=>
                (\E i \in 1..Len(lines.segs) : SegSteepPos(lines.segs[i]))
          /\ (lines.none => left_line = <<>> /\ right_line = <<>>)

C2_Witness ==
    /\ fpc = "return" /\ Len(lines.segs) = 2
    /\ lines.segs[1][1] = lines.segs[1][3]
    /\ SegSteepNeg(lines.segs[2])
    /\ left_line # <<>> /\ right_line = <<>>

\* C3: each loop iteration puts its segment in the left group iff it is
\* non-vertical with slope < -0.3, in the right group iff it is non-vertical
\* with slope > 0.3, and in no group otherwise; never in both, and a slope of
\* exactly 0.3 or -0.3 in neither. Earlier members of the groups stay.
C3_ExclusiveClasses ==
    [][idx' = idx + 1 =>
        LET seg == lines.segs[idx']
            dL == Len(left_lines') - Len(left_lines)
            dR == Len(right_lines') - Len(right_lines)
        IN  /\ dL \in {0, 1} /\ dR \in {0, 1} /\ dL + dR <= 1
            /\ (dL = 1) <=> SegSteepNeg(seg)
            /\ (dR = 1) <=> SegSteepPos(seg)
            /\ SegOnBoundary(seg) => (dL = 0 /\ dR = 0)
            /\ SubSeq(left_lines', 1, Len(left_lines)) = left_lines
            /\ SubSeq(right_lines', 1, Len(right_lines)) = right_lines]_vars

C3_Witness ==
    /\ fpc = "loop" /\ idx = 2
    /\ SegOnBoundary(lines.segs[1])
    /\ 10 * (lines.segs[1][4] - lines.segs[1][2]) = 3 * (lines.segs[1][3] - lines.segs[1][1])
    /\ SegSteepPos(lines.segs[2])
    /\ left_lines = <<>> /\ Len(right_lines) = 1

PresentLines == {l \in {left_line, right_line} : l # <<>>}

\* C4 as stated: every present line has y1 = frame height and
\* y2 = round(0.6 * frame height).
C4_TopAnchorRounded ==
    \A l \in PresentLines :
        /\ l[1][1][2] = image_height
        /\ 10 * l[1][2][2] - 5 <= 6 * image_height
        /\ 6 * image_height < 10 * l[1][2][2] + 5

\* C4 amended: every present line has y1 = frame height and
\* y2 = 0.6 * frame height truncated to an integer (int(), not round()).
C4_TopAnchorTruncated ==
    \A l \in PresentLines :
        /\ l[1][1][2] = image_height
        /\ 10 * l[1][2][2] <= 6 * image_height
        /\ 6 * image_height < 10 * (l[1][2][2] + 1)

C4_Witness ==
    /\ fpc = "return" /\ image_height = 3
    /\ left_line # <<>> /\ right_line # <<>>
    /\ left_line[1][2][2] = 1 /\ right_line[1][1][2] = 3

\* C8: the extrapolation never divides by zero: a group that is not empty has
\* a nonzero averaged slope, the call never raises, and every non-empty group
\* gets its line.
C8_NoZeroSlope ==
    /\ ferr = "none"
    /\ left_lines # <<>> => SumOf(left_lines, 1)[1] < 0
    /\ right_lines # <<>> => SumOf(right_lines, 1)[1] > 0
    /\ fpc \in {"avg_right", "return"} => (left_lines # <<>> => left_line # <<>>)
    /\ fpc = "return" => (right_lines # <<>> => right_line # <<>>)

C8_Witness ==
    /\ fpc = "return" /\ ferr = "none"
    /\ Len(left_lines) = 1 /\ Len(right_lines) = 1
    /\ left_line # <<>> /\ right_line # <<>>
    /\ RAdd(left_lines[1][1], right_lines[1][1])[1] = 0

(***************************************************************************)
(* Property of weighted_img (checked under SpecBlend).                     *)
(***************************************************************************)
\* C7: with the default weights the result is original*1.0 + overlay*0.8 + 0
\* for the pixel, so an all-zero overlay returns the original unchanged.
C7_OriginalKeepsFullWeight ==
    bpc = "return" =>
        /\ b_out = Saturate(RoundTenths(b_initial * 10 + b_img * 8))
        /\ (b_img = 0 => b_out = b_initial)

====
